---- MODULE Spec2Model ----
(***************************************************************************)
(* State-machine model of the client-side session / cart layer of          *)
(* app/frontend/src/App.js: AuthProvider (token, user, persisted token),   *)
(* CartProvider (cartItems, cartCount), the gestures of Header, AuthModal, *)
(* CartModal and ProductCard that call them, and the requests in flight.   *)
(* CartModal's product enrichment (EnrichSpec) and Home's catalog filter   *)
(* (FilterSpec) are specified on their own, over the same variables.       *)
(*                                                                         *)
(* React semantics used throughout: a function of a provider closes over   *)
(* the state of the render that created it; an effect with deps [token]    *)
(* runs after every commit that changed token, with that commit's          *)
(* closures; an await suspends the handler until the response arrives and  *)
(* the continuation runs with the closure captured at call time.           *)
(***************************************************************************)
EXTENDS Integers, Sequences, FiniteSets, TLC

\* ---------------------------------------------------------------- bounds
\* Number of request-sending gestures (login, register, logout, confirm
\* add, remove) the user performs in one run.
MaxGestures == 2

\* Number of times the cart collection is set while CartModal is watched.
MaxChanges == 2

\* Length of the product list Home receives.
MaxProducts == 2

\* ------------------------------------------------------------- universes
NULL == "null"
Tokens == {"t1", "t2"}
Products == {"p1"}
Sizes == {42}

\* Text: a string is the sequence of its characters.
Chars == {"a", "A", "b", "B", "c"}

\* The Product records the API serves (GET /products, GET /products/{id}).
Catalog ==
    [p1 |-> [id |-> "p1", name |-> <<"A", "b">>, brand |-> "Nike",
             category |-> "sneakers", price |-> 3, description |-> <<"c">>],
     p2 |-> [id |-> "p2", name |-> <<"c">>, brand |-> "Timberland",
             category |-> "boots", price |-> 5, description |-> <<"a", "B">>],
     p3 |-> [id |-> "p3", name |-> <<"b">>, brand |-> "Timberland",
             category |-> "sneakers", price |-> 0, description |-> <<"b">>]]

\* The products the lines of a cart handed to CartModal refer to.
LineProducts == {"p1", "p2"}
\* The ids of the lines of such a cart.
LineIds == {1, 2}
Quantities == {1, 2}

VARIABLES
    token,          \* AuthProvider state `token`
    stored,         \* localStorage['token']
    user,           \* AuthProvider state `user`
    cartItems,      \* CartProvider state `cartItems`
    cartCount,      \* CartProvider state `cartCount`
    showCart,       \* Header state `showCart`
    showSizeDialog, \* ProductCard state `showSizeDialog`, per product card
    inflight,       \* requests sent and not yet resumed by their handler
    serverCart,     \* server: cart lines of the account of each token
    nextItem,       \* server: next cart line id
    hist,           \* history: the carts the server held, per token
    cartTok,        \* history: token of the response held in cartItems
    cartVer,        \* history: position in hist of the response in cartItems
    cartFrom,       \* history: the call whose resync brought cartItems (or 0)
    regressed,      \* history: a resync's cart was replaced by an older
                    \*          cart that another resync brought
    sinceLogout,    \* history: logout() ran and no login succeeded since
    gestures,       \* number of gestures performed
    out,            \* operation, notifications and return value of the last step
    products,       \* CartModal state `products`: product id -> Product
    runs,           \* fetchProductDetails() calls suspended at their await
    done,           \* history: of the fetchProductDetails() call that returned
                    \*          last, the lines and product ids of its cart,
                    \*          the products held when it began, its requests
    changes,        \* number of times cartItems was set
    homeProducts,   \* Home state `products`
    filteredProducts, \* Home state `filteredProducts`
    selectedCategory, \* Home state `selectedCategory`
    selectedBrand,  \* Home state `selectedBrand`
    searchTerm,     \* Home state `searchTerm`
    loading         \* Home state `loading`

vars == <<token, stored, user, cartItems, cartCount, showCart,
          showSizeDialog, inflight, serverCart, nextItem, hist,
          cartTok, cartVer, cartFrom, regressed, sinceLogout, gestures,
          out, products, runs, done, changes, homeProducts,
          filteredProducts, selectedCategory, selectedBrand, searchTerm,
          loading>>

uiVars == <<showCart, showSizeDialog>>
serverVars == <<serverCart, nextItem, hist>>
cartVars == <<cartItems, cartCount, cartTok, cartVer, cartFrom, regressed>>
sessionVars == <<token, stored, user, sinceLogout>>
modalVars == <<products, runs, done, changes>>
homeVars == <<homeProducts, filteredProducts, selectedCategory, selectedBrand,
              searchTerm, loading>>
\* State of CartModal and Home, which no step of the providers writes.
viewVars == <<modalVars, homeVars>>

\* ------------------------------------------------------------- requests
\* One axios call. tok is the bearer token the call carries (NULL for the
\* endpoints without auth); committed is the value of `token` committed in
\* the session when the call was sent; origin is the id of the addToCart /
\* removeFromCart call that issued a resync fetch (0 otherwise); stage says
\* whether the server has applied it; ver, of a GET /cart, is the number of
\* carts the bearer's account had held when the call was sent.
Req(id, kind, tok, committed, origin, pid, size, item) ==
    [id |-> id, kind |-> kind, tok |-> tok, committed |-> committed,
     origin |-> origin, pid |-> pid, size |-> size, item |-> item,
     stage |-> "sent",
     ver |-> IF kind = "cart" /\ tok # NULL THEN Len(hist[tok]) ELSE 0]

\* The profile the server resolves a token to.
ProfileOf(t) == IF t = "t1" THEN "u1" ELSE "u2"

\* What a step surfaces: the operation that reported in it, the toast
\* notifications it emitted and its return value. A step that emits no
\* toast and returns nothing to a caller is Silent.
Out(op, toasts, ret) == [op |-> op, toasts |-> toasts, ret |-> ret]

Silent == Out("none", <<>>, "none")

RECURSIVE SumQuantity(_)
SumQuantity(items) ==
    IF items = <<>> THEN 0
    ELSE Head(items).quantity + SumQuantity(Tail(items))

Without(r) == inflight \ {r}

\* Request identities: the least number that no request in flight bears
\* or refers to (as the call that issued it), and the least one after it.
UsedIds(reqs) == {q.id : q \in reqs} \cup {q.origin : q \in reqs}

LeastFree(used) ==
    CHOOSE n \in 1..(Cardinality(used) + 1) :
        n \notin used /\ \A m \in 1..(n - 1) : m \in used

FreshId(reqs) == LeastFree(UsedIds(reqs))

SecondId(reqs) == LeastFree(UsedIds(reqs) \cup {FreshId(reqs)})

\* A request the server has applied.
Staged(r) == [r EXCEPT !.stage = "ok"]

\* ------------------------------------------------------- initial state
\* AuthProvider hydrates token from localStorage; the mount effects of
\* both providers have run: with a token, fetchCart() and fetchUser() are
\* in flight (a child's effects run before its parent's).
InitRequests(t) ==
    IF t = NULL THEN {}
    ELSE {Req(1, "cart", t, t, 0, NULL, 0, 0), Req(2, "me", t, t, 0, NULL, 0, 0)}

\* A product map without entries ({} in the source).
EmptyMap == [p \in {} |-> 0]

\* CartModal as mounted: useState({}) and no fetchProductDetails() running
\* (cartItems is empty at mount).
ModalInit ==
    /\ products = EmptyMap
    /\ runs = {}
    /\ done = [lines |-> 0, pids |-> {}, cached |-> {}, issued |-> 0]
    /\ changes = 0

\* Home as mounted: its useState calls, and filterProducts() run by the
\* mount effect on the empty list.
HomeInit ==
    /\ homeProducts = <<>>
    /\ filteredProducts = <<>>
    /\ selectedCategory = "all"
    /\ selectedBrand = "all"
    /\ searchTerm = <<>>
    /\ loading = TRUE

Init ==
    /\ ModalInit
    /\ HomeInit
    /\ serverCart = [t \in Tokens |-> <<>>]
    /\ nextItem = 1
    /\ hist = [t \in Tokens |-> << <<>> >>]
    /\ token \in {"t1", NULL}    \* the two tokens are interchangeable
    /\ stored = token
    /\ user = NULL
    /\ cartItems = <<>>
    /\ cartCount = 0
    /\ showCart = FALSE
    /\ showSizeDialog = [p \in Products |-> FALSE]
    /\ inflight = InitRequests(token)
    /\ cartTok = NULL
    /\ cartVer = 0
    /\ cartFrom = 0
    /\ regressed = FALSE
    /\ sinceLogout = FALSE
    /\ gestures = 0
    /\ out = Silent

\* ------------------------------------------------------- token effects
\* fetchCart(): GET /cart with the token of the closure that calls it.
FetchCartSend(id, tok, committed, origin) ==
    Req(id, "cart", tok, committed, origin, NULL, 0, 0)

\* fetchUser(): GET /auth/me with the token of the closure that calls it.
FetchUserSend(id, tok, committed) ==
    Req(id, "me", tok, committed, 0, NULL, 0, 0)

\* Mutation of CartEffectRequests: the effect starts no fetchCart().
CartEffectIdle(newTok) == {}

\* CartProvider's effect on [token], then branch: a token starts fetchCart().
CartEffectRequests(newTok) ==
    IF newTok # token /\ newTok # NULL
    THEN {FetchCartSend(FreshId(inflight), newTok, newTok, 0)}
    ELSE {}

\* CartProvider's effect on [token], else branch: no token clears the cart.
CartEffectClears(newTok) == newTok # token /\ newTok = NULL

\* AuthProvider's effect on [token]: a token starts fetchUser().
AuthEffectRequests(newTok) ==
    IF newTok # token /\ newTok # NULL
    THEN {FetchUserSend(SecondId(inflight), newTok, newTok)}
    ELSE {}

\* setToken(newTok) committed, followed by the effects that depend on token.
\* rest is what stays in flight.
SetToken(newTok, rest) ==
    LET sent == CartEffectRequests(newTok) \cup AuthEffectRequests(newTok)
    IN  /\ token' = newTok
        /\ inflight' = rest \cup sent
            /\ IF CartEffectClears(newTok)
           THEN /\ cartItems' = <<>>
                /\ cartCount' = 0
                /\ cartTok' = NULL
                /\ cartVer' = 0
                /\ cartFrom' = 0
                /\ regressed' = FALSE
           ELSE UNCHANGED cartVars

\* ------------------------------------------------------- session store
\* logout(): setUser(null); setToken(null); removeItem; toast.success.
\* caller is the operation that called it, reported in out.
logout(rest, caller) ==
    /\ user' = NULL
    /\ SetToken(NULL, rest)
    /\ stored' = NULL
    /\ sinceLogout' = TRUE
    /\ out' = Out(caller, <<"success">>, "none")

\* Header: the Deconnexion button, rendered while user is set.
ClickLogout ==
    /\ gestures < MaxGestures
    /\ user # NULL
    /\ logout(inflight, "logout")
    /\ gestures' = gestures + 1
    /\ UNCHANGED <<uiVars, serverVars, viewVars>>

\* Header's Se connecter button (rendered while user is not set) opens
\* AuthModal; handleSubmit in login mode: login() up to its await.
SubmitLogin ==
    /\ gestures < MaxGestures
    /\ user = NULL
    /\ inflight' = inflight \cup {Req(FreshId(inflight), "login", NULL, token, 0, NULL, 0, 0)}
    /\ gestures' = gestures + 1
    /\ out' = Silent
    /\ UNCHANGED <<sessionVars, cartVars, uiVars, serverVars, viewVars>>

\* login() resumed with a response: setToken, setItem, toast.success,
\* return true; handleSubmit then closes the dialog.
LoginOk(r, t) ==
    /\ r.kind = "login"
    /\ SetToken(t, Without(r))
    /\ stored' = t
    /\ sinceLogout' = FALSE
    /\ out' = Out("login", <<"success">>, "true")
    /\ UNCHANGED <<user, uiVars, serverVars, gestures, viewVars>>

\* Mutation of LoginErr: the rejection also ends the session.
LoginErrLogout(r) ==
    /\ r.kind = "login"
    /\ user' = NULL
    /\ SetToken(NULL, Without(r))
    /\ stored' = NULL
    /\ sinceLogout' = TRUE
    /\ out' = Out("login", <<"error">>, "false")
    /\ UNCHANGED <<uiVars, serverVars, gestures, viewVars>>

\* login() resumed with a rejection: toast.error, return false.
LoginErr(r) ==
    /\ r.kind = "login"
    /\ inflight' = Without(r)
    /\ out' = Out("login", <<"error">>, "false")
    /\ UNCHANGED <<sessionVars, cartVars, uiVars, serverVars, gestures, viewVars>>

\* AuthModal.handleSubmit in register mode: register() up to its await.
SubmitRegister ==
    /\ gestures < MaxGestures
    /\ user = NULL
    /\ inflight' = inflight \cup {Req(FreshId(inflight), "register", NULL, token, 0, NULL, 0, 0)}
    /\ gestures' = gestures + 1
    /\ out' = Silent
    /\ UNCHANGED <<sessionVars, cartVars, uiVars, serverVars, viewVars>>

\* Mutation of RegisterOk: the registration also opens a session.
RegisterOkSignsIn(r) ==
    /\ r.kind = "register"
    /\ SetToken("t2", Without(r))
    /\ stored' = "t2"
    /\ sinceLogout' = FALSE
    /\ out' = Out("register", <<"success">>, "true")
    /\ UNCHANGED <<user, uiVars, serverVars, gestures, viewVars>>

\* register() resumed with a response: toast.success, return true.
RegisterOk(r) ==
    /\ r.kind = "register"
    /\ inflight' = Without(r)
    /\ out' = Out("register", <<"success">>, "true")
    /\ UNCHANGED <<sessionVars, cartVars, uiVars, serverVars, gestures, viewVars>>

\* register() resumed with a rejection: toast.error, return false.
RegisterErr(r) ==
    /\ r.kind = "register"
    /\ inflight' = Without(r)
    /\ out' = Out("register", <<"error">>, "false")
    /\ UNCHANGED <<sessionVars, cartVars, uiVars, serverVars, gestures, viewVars>>

\* fetchUser() resumed with a response: setUser(response.data).
FetchUserOk(r) ==
    /\ r.kind = "me"
    /\ user' = ProfileOf(r.tok)
    /\ inflight' = Without(r)
    /\ out' = Silent
    /\ UNCHANGED <<token, stored, sinceLogout, cartVars, uiVars, serverVars, gestures, viewVars>>

\* Mutation of FetchUserErr: the rejected fetch is sent again.
FetchUserErrRetry(r) ==
    /\ r.kind = "me"
    /\ inflight' = Without(r) \cup {FetchUserSend(FreshId(inflight), r.tok, token)}
    /\ out' = Silent
    /\ UNCHANGED <<sessionVars, cartVars, uiVars, serverVars, gestures, viewVars>>

\* fetchUser() resumed with a rejection: console.error, logout().
FetchUserErr(r) ==
    /\ r.kind = "me"
    /\ logout(Without(r), "fetchUser")
    /\ UNCHANGED <<uiVars, serverVars, gestures, viewVars>>

\* --------------------------------------------------------- cart engine
\* Header: the cart button, rendered while user is set.
OpenCart ==
    /\ user # NULL
    /\ ~showCart
    /\ showCart' = TRUE
    /\ out' = Silent
    /\ UNCHANGED <<sessionVars, cartVars, showSizeDialog, inflight,
                   serverVars, gestures, viewVars>>

\* CartModal: onOpenChange closes the dialog.
CloseCart ==
    /\ showCart
    /\ showCart' = FALSE
    /\ out' = Silent
    /\ UNCHANGED <<sessionVars, cartVars, showSizeDialog, inflight,
                   serverVars, gestures, viewVars>>

\* ProductCard.handleAddToCart: without a user a toast, else the size dialog.
handleAddToCart(p) ==
    /\ ~showSizeDialog[p]
    /\ IF user = NULL
       THEN /\ out' = Out("handleAddToCart", <<"error">>, "none")
            /\ UNCHANGED showSizeDialog
       ELSE /\ out' = Silent
            /\ showSizeDialog' = [showSizeDialog EXCEPT ![p] = TRUE]
    /\ UNCHANGED <<sessionVars, cartVars, showCart, inflight,
                   serverVars, gestures, viewVars>>

\* ProductCard: onOpenChange closes the size dialog.
CloseSizeDialog(p) ==
    /\ showSizeDialog[p]
    /\ showSizeDialog' = [showSizeDialog EXCEPT ![p] = FALSE]
    /\ out' = Silent
    /\ UNCHANGED <<sessionVars, cartVars, showCart, inflight,
                   serverVars, gestures, viewVars>>

\* Mutation of addToCartSend: the resync is sent together with the POST.
addToCartSendWithFetch(p, size) ==
    {Req(FreshId(inflight), "add", token, token, 0, p, size, 0),
     FetchCartSend(SecondId(inflight), token, token, FreshId(inflight))}

\* addToCart(productId, size) up to its await: POST /cart/add with the
\* token of the current render, quantity 1.
addToCartSend(p, size) ==
    {Req(FreshId(inflight), "add", token, token, 0, p, size, 0)}

\* ProductCard.confirmAddToCart with a selected size: addToCart, close.
confirmAddToCart(p, size) ==
    /\ gestures < MaxGestures
    /\ showSizeDialog[p]
    /\ inflight' = inflight \cup addToCartSend(p, size)
    /\ showSizeDialog' = [showSizeDialog EXCEPT ![p] = FALSE]
    /\ gestures' = gestures + 1
    /\ out' = Silent
    /\ UNCHANGED <<sessionVars, cartVars, showCart, serverVars, viewVars>>

\* The resync fetchCart() that a resumed addToCart / removeFromCart calls:
\* the fetchCart of the closure that made the call, with its token.
ResyncSend(r) == {FetchCartSend(FreshId(inflight), r.tok, token, r.id)}

\* Mutation of AddOk: the line is also inserted in the local collection.
AddOkOptimistic(r) ==
    /\ r.kind = "add" /\ r.stage = "ok"
    /\ inflight' = Without(r) \cup ResyncSend(r)
    /\ cartItems' = Append(cartItems, [id |-> 0, product_id |-> r.pid,
                                       size |-> r.size, quantity |-> 1])
    /\ cartCount' = cartCount + 1
    /\ out' = Out("addToCart", <<"success">>, "none")
    /\ UNCHANGED <<sessionVars, cartTok, cartVer, cartFrom, regressed,
                   uiVars, serverVars, gestures, viewVars>>

\* addToCart resumed with a response: fetchCart(), toast.success.
AddOk(r) ==
    /\ r.kind = "add" /\ r.stage = "ok"
    /\ inflight' = Without(r) \cup ResyncSend(r)
    /\ out' = Out("addToCart", <<"success">>, "none")
    /\ UNCHANGED <<sessionVars, cartVars, uiVars, serverVars, gestures, viewVars>>

\* Mutation of AddErr: the rejected call resynchronizes as well.
AddErrResync(r) ==
    /\ r.kind = "add" /\ r.stage = "sent"
    /\ inflight' = Without(r) \cup ResyncSend(r)
    /\ out' = Out("addToCart", <<"error">>, "none")
    /\ UNCHANGED <<sessionVars, cartVars, uiVars, serverVars, gestures, viewVars>>

\* addToCart resumed with a rejection: toast.error.
AddErr(r) ==
    /\ r.kind = "add" /\ r.stage = "sent"
    /\ inflight' = Without(r)
    /\ out' = Out("addToCart", <<"error">>, "none")
    /\ UNCHANGED <<sessionVars, cartVars, uiVars, serverVars, gestures, viewVars>>

\* CartModal: the remove button of a line of cartItems (rendered once the
\* line's product is resolved); removeFromCart(item.id) up to its await,
\* with the token of the current render.
ClickRemove(i) ==
    /\ gestures < MaxGestures
    /\ showCart
    /\ inflight' = inflight \cup
           {Req(FreshId(inflight), "remove", token, token, 0, NULL, 0, cartItems[i].id)}
    /\ gestures' = gestures + 1
    /\ out' = Silent
    /\ UNCHANGED <<sessionVars, cartVars, uiVars, serverVars, viewVars>>

\* removeFromCart resumed with a response: fetchCart(), toast.success.
RemoveOk(r) ==
    /\ r.kind = "remove" /\ r.stage = "ok"
    /\ inflight' = Without(r) \cup ResyncSend(r)
    /\ out' = Out("removeFromCart", <<"success">>, "none")
    /\ UNCHANGED <<sessionVars, cartVars, uiVars, serverVars, gestures, viewVars>>

\* removeFromCart resumed with a rejection: toast.error.
RemoveErr(r) ==
    /\ r.kind = "remove" /\ r.stage = "sent"
    /\ inflight' = Without(r)
    /\ out' = Out("removeFromCart", <<"error">>, "none")
    /\ UNCHANGED <<sessionVars, cartVars, uiVars, serverVars, gestures, viewVars>>

\* Mutation of ReplaceItems: the response is appended to the held lines.
AppendItems(items, data) == items \o data

\* setCartItems(response.data): the collection is replaced wholesale.
ReplaceItems(items, data) == data

\* Mutation of CountOf: the number of lines instead of their quantities.
CountOfLines(data) == Len(data)

\* setCartCount(response.data.reduce(sum + item.quantity, 0)).
CountOf(data) == SumQuantity(data)

\* The positions of hist a GET /cart may be answered from; none without a
\* bearer token.
ReadPositions(r) ==
    IF r.tok = NULL THEN {} ELSE r.ver..Len(hist[r.tok])

\* fetchCart() resumed with a response: setCartItems, setCartCount.
\* GET /cart has no effect on the server, so its answer is the cart the
\* bearer's account held at some moment between send and arrival: hist at
\* a position v from the one at send up to the current one.
FetchCartOk(r, v) ==
    /\ r.kind = "cart"
    /\ v \in ReadPositions(r)
    /\ cartItems' = ReplaceItems(cartItems, hist[r.tok][v])
    /\ cartCount' = CountOf(hist[r.tok][v])
    /\ cartTok' = r.tok
    /\ cartVer' = v
    /\ cartFrom' = r.origin
    /\ regressed' = /\ cartTok = r.tok /\ v < cartVer
                    /\ cartFrom # 0 /\ r.origin # 0
    /\ inflight' = Without(r)
    /\ out' = Silent
    /\ UNCHANGED <<sessionVars, uiVars, serverVars, gestures, viewVars>>

\* Mutation of FetchCartErr: the rejection clears the cart and notifies.
FetchCartErrClears(r) ==
    /\ r.kind = "cart"
    /\ inflight' = Without(r)
    /\ cartItems' = <<>>
    /\ cartCount' = 0
    /\ out' = Out("fetchCart", <<"error">>, "none")
    /\ UNCHANGED <<sessionVars, cartTok, cartVer, cartFrom, regressed,
                   uiVars, serverVars, gestures, viewVars>>

\* fetchCart() resumed with a rejection: console.error only.
FetchCartErr(r) ==
    /\ r.kind = "cart"
    /\ inflight' = Without(r)
    /\ out' = Silent
    /\ UNCHANGED <<sessionVars, cartVars, uiVars, serverVars, gestures, viewVars>>

\* -------------------------------------------------------------- server
\* The cart endpoints of the API, as the interface table describes them.
RECURSIVE HasLine(_, _, _)
HasLine(cart, p, size) ==
    IF cart = <<>> THEN FALSE
    ELSE \/ (Head(cart).product_id = p /\ Head(cart).size = size)
         \/ HasLine(Tail(cart), p, size)

RECURSIVE Coalesce(_, _, _)
Coalesce(cart, p, size) ==
    IF cart = <<>> THEN <<>>
    ELSE <<IF Head(cart).product_id = p /\ Head(cart).size = size
           THEN [Head(cart) EXCEPT !.quantity = @ + 1]
           ELSE Head(cart)>> \o Coalesce(Tail(cart), p, size)

\* POST /cart/add: a duplicate product and size adds to the line's quantity.
ServerAddLine(cart, p, size) ==
    IF HasLine(cart, p, size) THEN Coalesce(cart, p, size)
    ELSE Append(cart, [id |-> nextItem, product_id |-> p, size |-> size,
                       quantity |-> 1])

RECURSIVE ServerDropLine(_, _)
ServerDropLine(cart, itemId) ==
    IF cart = <<>> THEN <<>>
    ELSE IF Head(cart).id = itemId THEN ServerDropLine(Tail(cart), itemId)
         ELSE <<Head(cart)>> \o ServerDropLine(Tail(cart), itemId)

\* POST /cart/add applied to the cart of the bearer's account.
ServerAdd(r) ==
    /\ r.kind = "add" /\ r.stage = "sent" /\ r.tok # NULL
    /\ LET cart == ServerAddLine(serverCart[r.tok], r.pid, r.size)
       IN  /\ serverCart' = [serverCart EXCEPT ![r.tok] = cart]
           /\ hist' = [hist EXCEPT ![r.tok] = Append(@, cart)]
    /\ nextItem' = nextItem + 1
    /\ inflight' = Without(r) \cup {Staged(r)}
    /\ out' = Silent
    /\ UNCHANGED <<sessionVars, cartVars, uiVars, gestures, viewVars>>

\* DELETE /cart/{item_id} applied to the cart of the bearer's account.
ServerRemove(r) ==
    /\ r.kind = "remove" /\ r.stage = "sent" /\ r.tok # NULL
    /\ \E i \in 1..Len(serverCart[r.tok]) : serverCart[r.tok][i].id = r.item
    /\ LET cart == ServerDropLine(serverCart[r.tok], r.item)
       IN  /\ serverCart' = [serverCart EXCEPT ![r.tok] = cart]
           /\ hist' = [hist EXCEPT ![r.tok] = Append(@, cart)]
    /\ inflight' = Without(r) \cup {Staged(r)}
    /\ out' = Silent
    /\ UNCHANGED <<sessionVars, cartVars, uiVars, nextItem, gestures, viewVars>>

\* ------------------------------------------------------- specification
\* What the user does.
Gesture ==
    \/ SubmitLogin
    \/ SubmitRegister
    \/ ClickLogout
    \/ OpenCart
    \/ CloseCart
    \/ \E p \in Products : handleAddToCart(p)
    \/ \E p \in Products : CloseSizeDialog(p)
    \/ \E p \in Products, size \in Sizes : confirmAddToCart(p, size)
    \/ \E i \in 1..Len(cartItems) : ClickRemove(i)

\* What the API does with a request it received.
Server ==
    \/ \E r \in inflight : ServerAdd(r)
    \/ \E r \in inflight : ServerRemove(r)

\* A suspended handler resumes with the outcome of its request.
Resume ==
    \/ \E r \in inflight, t \in Tokens : LoginOk(r, t)
    \/ \E r \in inflight : LoginErr(r)
    \/ \E r \in inflight : RegisterOk(r)
    \/ \E r \in inflight : RegisterErr(r)
    \/ \E r \in inflight : FetchUserOk(r)
    \/ \E r \in inflight : FetchUserErr(r)
    \/ \E r \in inflight : \E v \in ReadPositions(r) : FetchCartOk(r, v)
    \/ \E r \in inflight : FetchCartErr(r)
    \/ \E r \in inflight : AddOk(r)
    \/ \E r \in inflight : AddErr(r)
    \/ \E r \in inflight : RemoveOk(r)
    \/ \E r \in inflight : RemoveErr(r)

Next == Gesture \/ Server \/ Resume

Spec == Init /\ [][Next]_vars

\* ----------------------------------------------- cart enrichment resolver
\* CartModal is mounted for the whole life of Header. It is specified on
\* its own: the cart collection is its input, set by CartProvider (a
\* successful fetchCart(), or the token effect clearing it) to any cart.
mainVars == <<token, stored, user, cartTok, cartVer, cartFrom, regressed,
              sinceLogout, uiVars, inflight, serverVars, gestures, out>>

\* The cart collections CartProvider may hand over: the line at position i
\* bears id i.
Lines(n) ==
    [1..n -> [product_id : LineProducts, size : Sizes, quantity : Quantities]]

Carts ==
    UNION {{[i \in 1..n |-> [id |-> i, product_id |-> l[i].product_id,
                              size |-> l[i].size, quantity |-> l[i].quantity]] :
            l \in Lines(n)} : n \in 0..Cardinality(LineIds)}

\* productMap[item.product_id] = response.data
PutProduct(productMap, pid, product) ==
    [p \in DOMAIN productMap \cup {pid} |->
        IF p = pid THEN product ELSE productMap[p]]

\* Mutation of NextFetch: lines whose product is already in the product
\* state or in the map under construction are skipped.
NextUncached(items, from, productMap, cache) ==
    LET known == DOMAIN cache \cup DOMAIN productMap
        rest == {i \in from..Len(items) : items[i].product_id \notin known}
    IN  IF rest = {} THEN Len(items) + 1
        ELSE CHOOSE i \in rest : \A j \in rest : i <= j

\* `for (const item of cartItems)`: the line the loop turns to when it has
\* dealt with the lines before position from. The loop skips no line.
NextFetch(items, from, productMap, cache) == from

\* fetchProductDetails() from the line after run.pos, productMap being the
\* map built so far: either the next axios.get is sent and the call is
\* suspended at it, or the loop is over and setProducts(productMap) runs.
Continue(run, productMap) ==
    LET nxt == NextFetch(run.items, run.pos + 1, productMap, products)
    IN  IF nxt <= Len(run.items)
        THEN /\ runs' = (runs \ {run}) \cup
                     {[run EXCEPT !.pos = nxt, !.productMap = productMap,
                                  !.issued = @ + 1]}
             /\ UNCHANGED <<products, done>>
        ELSE /\ runs' = runs \ {run}
             /\ products' = productMap
             /\ done' = [lines |-> Len(run.items),
                         pids |-> {run.items[i].product_id :
                                       i \in 1..Len(run.items)},
                         cached |-> run.cached, issued |-> run.issued]

\* CartModal's effect on [cartItems]: a non-empty collection starts
\* fetchProductDetails() with `const productMap = {}`.
ModalEffect(items) ==
    IF Len(items) > 0
    THEN Continue([id |-> changes + 1, items |-> items, pos |-> 0,
                   productMap |-> EmptyMap, issued |-> 0,
                   cached |-> DOMAIN products], EmptyMap)
    ELSE UNCHANGED <<products, runs, done>>

\* CartProvider commits setCartItems(items) and setCartCount; CartModal
\* renders with the new collection and its effect runs.
CartItemsChange(items) ==
    /\ changes < MaxChanges
    /\ cartItems' = items
    /\ cartCount' = CountOf(items)
    /\ changes' = changes + 1
    /\ ModalEffect(items)
    /\ UNCHANGED <<mainVars, homeVars>>

\* The axios.get of a suspended fetchProductDetails() resolves.
ProductOk(run) ==
    /\ Continue(run, PutProduct(run.productMap,
                                run.items[run.pos].product_id,
                                Catalog[run.items[run.pos].product_id]))
    /\ UNCHANGED <<mainVars, homeVars, cartItems, cartCount, changes>>

\* The axios.get of a suspended fetchProductDetails() rejects:
\* console.error, and the loop goes on.
ProductErr(run) ==
    /\ Continue(run, run.productMap)
    /\ UNCHANGED <<mainVars, homeVars, cartItems, cartCount, changes>>

\* Mutation of LineValue: the quantity of the line is left out.
LinePrice(item, prods) ==
    IF item.product_id \in DOMAIN prods
    THEN prods[item.product_id].price
    ELSE 0

\* `product ? product.price * item.quantity : 0`
LineValue(item, prods) ==
    IF item.product_id \in DOMAIN prods
    THEN prods[item.product_id].price * item.quantity
    ELSE 0

\* cartItems.reduce((sum, item) => sum + ..., sum)
RECURSIVE Reduce(_, _, _)
Reduce(sum, items, prods) ==
    IF items = <<>> THEN sum
    ELSE Reduce(sum + LineValue(Head(items), prods), Tail(items), prods)

\* CartModal's `total`, computed at every render.
total == Reduce(0, cartItems, products)

EnrichInit == Init /\ token = NULL

EnrichNext ==
    \/ \E items \in Carts : CartItemsChange(items)
    \/ \E run \in runs : ProductOk(run)
    \/ \E run \in runs : ProductErr(run)

EnrichSpec == EnrichInit /\ [][EnrichNext]_vars

\* ------------------------------------------------ catalog filter pipeline
\* Home is specified on its own: nothing it holds is read or written by
\* the providers.
Categories == {"all", "sneakers", "boots"}
Brands == {"all", "Nike", "Timberland"}
SearchTerms == {<<>>, <<"a">>, <<"A", "B">>, <<"c">>}

\* The lists GET /products may answer with: up to MaxProducts records of
\* the catalog, in any order.
ProductLists ==
    UNION {{[i \in 1..n |-> Catalog[ids[i]]] : ids \in [1..n -> DOMAIN Catalog]} :
           n \in 0..MaxProducts}

\* String.prototype.toLowerCase
LowerChar(c) ==
    CASE c = "A" -> "a"
      [] c = "B" -> "b"
      [] OTHER -> c

toLowerCase(str) == [i \in 1..Len(str) |-> LowerChar(str[i])]

\* String.prototype.includes: term occurs in str at some offset.
includes(str, term) ==
    \E k \in 0..(Len(str) - Len(term)) :
        \A i \in 1..Len(term) : str[k + i] = term[i]

\* Mutation of SearchHit: the description is not searched.
SearchHitNameOnly(product, term) ==
    includes(toLowerCase(product.name), toLowerCase(term))

\* The predicate of the searchTerm filter.
SearchHit(product, term) ==
    \/ includes(toLowerCase(product.name), toLowerCase(term))
    \/ includes(toLowerCase(product.description), toLowerCase(term))

\* filterProducts(), on the products and criteria of the render that runs
\* it: up to three Array.prototype.filter passes; its value is what it
\* hands to setFilteredProducts.
filterProducts(prods, category, brand, term) ==
    LET byCategory ==
            IF category # "all"
            THEN SelectSeq(prods, LAMBDA product : product.category = category)
            ELSE prods
        byBrand ==
            IF brand # "all"
            THEN SelectSeq(byCategory, LAMBDA product : product.brand = brand)
            ELSE byCategory
    IN  IF term # <<>>
        THEN SelectSeq(byBrand, LAMBDA product : SearchHit(product, term))
        ELSE byBrand

\* fetchProducts() resumed with a response: setProducts, setLoading(false);
\* then the effect on [products, ...] runs filterProducts().
fetchProductsOk(list) ==
    /\ loading
    /\ homeProducts' = list
    /\ loading' = FALSE
    /\ filteredProducts' =
           filterProducts(list, selectedCategory, selectedBrand, searchTerm)
    /\ UNCHANGED <<selectedCategory, selectedBrand, searchTerm>>
    /\ UNCHANGED <<mainVars, cartItems, cartCount, modalVars>>

\* fetchProducts() resumed with a rejection: console.error,
\* setLoading(false).
fetchProductsErr ==
    /\ loading
    /\ loading' = FALSE
    /\ UNCHANGED <<homeProducts, filteredProducts, selectedCategory,
                   selectedBrand, searchTerm>>
    /\ UNCHANGED <<mainVars, cartItems, cartCount, modalVars>>

\* ProductFilters (rendered once loading is over): onCategoryChange, then
\* the effect runs filterProducts().
setSelectedCategory(category) ==
    /\ ~loading
    /\ selectedCategory' = category
    /\ filteredProducts' =
           filterProducts(homeProducts, category, selectedBrand, searchTerm)
    /\ UNCHANGED <<homeProducts, selectedBrand, searchTerm, loading>>
    /\ UNCHANGED <<mainVars, cartItems, cartCount, modalVars>>

\* ProductFilters: onBrandChange, then the effect runs filterProducts().
setSelectedBrand(brand) ==
    /\ ~loading
    /\ selectedBrand' = brand
    /\ filteredProducts' =
           filterProducts(homeProducts, selectedCategory, brand, searchTerm)
    /\ UNCHANGED <<homeProducts, selectedCategory, searchTerm, loading>>
    /\ UNCHANGED <<mainVars, cartItems, cartCount, modalVars>>

\* ProductFilters: onSearch, then the effect runs filterProducts().
setSearchTerm(term) ==
    /\ ~loading
    /\ searchTerm' = term
    /\ filteredProducts' =
           filterProducts(homeProducts, selectedCategory, selectedBrand, term)
    /\ UNCHANGED <<homeProducts, selectedCategory, selectedBrand, loading>>
    /\ UNCHANGED <<mainVars, cartItems, cartCount, modalVars>>

FilterInit == Init /\ token = NULL

FilterNext ==
    \/ \E list \in ProductLists : fetchProductsOk(list)
    \/ fetchProductsErr
    \/ \E category \in Categories : setSelectedCategory(category)
    \/ \E brand \in Brands : setSelectedBrand(brand)
    \/ \E term \in SearchTerms : setSearchTerm(term)

FilterSpec == FilterInit /\ [][FilterNext]_vars

\* ---------------------------------------------------------------- C1
\* C1: in every reachable state a non-null user profile implies a non-null
\* token, whatever the order in which login, logout and profile fetches
\* complete.
C1_UserImpliesToken == user # NULL => token # NULL

\* ---------------------------------------------------------------- C2
\* C2: from logout() until the next successful login the token is absent
\* from memory and from storage, the cart collection is empty and the cart
\* count is 0, whatever requests were in flight at the logout.
C2_LoggedOutStaysEmpty ==
    sinceLogout =>
        /\ token = NULL
        /\ stored = NULL
        /\ cartItems = <<>>
        /\ cartCount = 0

\* ---------------------------------------------------------------- C3
\* C3: every request with a bearer token carries the token committed in
\* the session at the moment it is sent.
BearerKinds == {"me", "cart", "add", "remove"}

C3_RequestsCarryCommittedToken ==
    \A r \in inflight : r.kind \in BearerKinds => r.tok = r.committed

\* ---------------------------------------------------------------- C4
RECURSIVE QuantityUpTo(_, _)
QuantityUpTo(items, n) ==
    IF n = 0 THEN 0 ELSE items[n].quantity + QuantityUpTo(items, n - 1)

\* C4: in every reachable state cartCount is the sum of the quantities of
\* the lines held in cartItems.
C4_CountIsSumOfQuantities == cartCount = QuantityUpTo(cartItems, Len(cartItems))

\* A cart line of quantity 2 is held: the count differs from the number of
\* lines.
C4_Witness ==
    /\ Len(cartItems) = 1
    /\ cartItems[1].quantity = 2
    /\ cartCount = 2

\* ---------------------------------------------------------------- C5
\* C5: the cart collection is empty or a cart the server held for the
\* token it was fetched with; nothing orders the responses, so the cart
\* held can be an older one than the server's current cart (C5_Witness).
C5_CartIsAServerSnapshot ==
    \/ cartItems = <<>>
    \/ /\ cartTok # NULL
       /\ cartVer \in 1..Len(hist[cartTok])
       /\ cartItems = hist[cartTok][cartVer]

\* Two mutations were applied for the current token, the resync of the
\* second was installed first and the resync of the first after it: with
\* no request in flight the cart held is the server's cart after the first
\* mutation and differs from the server's current cart.
C5_Witness ==
    /\ inflight = {}
    /\ token # NULL
    /\ cartTok = token
    /\ Len(hist[token]) = 3
    /\ regressed
    /\ cartFrom # 0
    /\ cartVer = 2
    /\ cartItems = hist[token][2]
    /\ serverCart[token] = hist[token][3]
    /\ cartItems # serverCart[token]

\* ---------------------------------------------------------------- C6
\* The requests a step sends.
Sent == {q \in inflight' : \A m \in inflight : m.id # q.id}

\* The requests a step takes out of flight.
Resumed == {q \in inflight : \A m \in inflight' : m.id # q.id}

IsResync(q) == q.kind = "cart" /\ q.origin # 0

\* C6: a resync fetch is sent in the step in which the mutation request of
\* its own call resumes with a response, and the two are never in flight
\* together.
C6_ResyncAfterRoundTrip ==
    /\ [](\A q \in inflight : IsResync(q) =>
              \A m \in inflight : m.id # q.origin)
    /\ [][\A q \in Sent : IsResync(q) =>
              \E m \in Resumed : /\ m.id = q.origin
                                 /\ m.kind \in {"add", "remove"}
                                 /\ m.stage = "ok"]_vars

\* A resync fetch is in flight.
C6_Witness == \E q \in inflight : IsResync(q)

\* ---------------------------------------------------------------- C7
\* The cart fetches a step sends on behalf of call r.
ResyncsOf(r) == {q \in Sent : q.kind = "cart" /\ q.origin = r.id}

\* C7 as claimed: an addToCart call whose request has completed, with a
\* response or with a rejection, sends exactly one cart fetch.
C7_AddAlwaysResyncs ==
    [][\A r \in Resumed : r.kind = "add" =>
           Cardinality(ResyncsOf(r)) = 1]_vars

\* C7 as amended: an addToCart call sends exactly one cart fetch when its
\* request succeeded and none when it was rejected, and sends nothing else.
C7_AddResyncsOnSuccessOnly ==
    [][\A r \in Resumed : r.kind = "add" =>
           /\ Cardinality(ResyncsOf(r)) = (IF r.stage = "ok" THEN 1 ELSE 0)
           /\ Sent = ResyncsOf(r)]_vars

\* An addToCart call has just reported a failure and sent no cart fetch.
C7_Witness ==
    /\ out.op = "addToCart"
    /\ out.toasts = <<"error">>
    /\ \A q \in inflight : ~IsResync(q)

\* ---------------------------------------------------------------- C8
\* C8: a rejected login returns false, leaves token, persisted token and
\* user as they were, emits exactly one failure notification and sends no
\* request.
C8_FailedLoginChangesNothing ==
    [][\A r \in Resumed : LoginErr(r) =>
           /\ out'.op = "login"
           /\ out'.ret = "false"
           /\ out'.toasts = <<"error">>
           /\ token' = token
           /\ stored' = stored
           /\ user' = user
           /\ Sent = {}]_vars

\* A login has just failed while a session was held.
C8_Witness ==
    /\ out.op = "login"
    /\ out.ret = "false"
    /\ token # NULL
    /\ stored = token

\* ---------------------------------------------------------------- C9
\* The handler of request r resumes with a rejection.
Failure(r) ==
    \/ LoginErr(r)
    \/ RegisterErr(r)
    \/ FetchUserErr(r)
    \/ FetchCartErr(r)
    \/ AddErr(r)
    \/ RemoveErr(r)

\* The steps a request in flight can still cause: its own, and those of
\* the requests its handler sends when it resumes.
StepsLeft(r) ==
    CASE r.kind = "login" -> 3
      [] r.kind \in {"add", "remove"} -> IF r.stage = "sent" THEN 3 ELSE 2
      [] OTHER -> 1

Pending(reqs) ==
    Cardinality(reqs)
    + 2 * Cardinality({q \in reqs : StepsLeft(q) = 3})
    + Cardinality({q \in reqs : StepsLeft(q) = 2})

\* C9: a rejected profile fetch leaves token, persisted token and user
\* null and sends nothing; no rejected request of any kind is sent again;
\* every step on the requests in flight that is not a gesture lowers the
\* number of steps left, and while a request is in flight such a step is
\* possible: without further gestures the system comes to a state with no
\* request in flight.
\* (The request a handler resumes with is the one the step takes out of
\* flight.)
C9_FailuresAreTerminal ==
    /\ [][\/ inflight' = inflight
          \/ /\ \A r \in Resumed :
                    /\ (r.kind = "me" /\ FetchUserErr(r)) => /\ token' = NULL
                                                             /\ stored' = NULL
                                                             /\ user' = NULL
                    /\ Sent = {} \/ ~Failure(r)
             /\ \/ gestures' # gestures
                \/ Pending(inflight') < Pending(inflight)]_vars
    /\ [](inflight # {} => ENABLED (Resume \/ Server))

\* A profile fetch has just been rejected and nothing is in flight.
C9_Witness ==
    /\ out.op = "fetchUser"
    /\ out.toasts = <<"success">>
    /\ inflight = {}
    /\ token = NULL

\* --------------------------------------------------------------- C10
UserOperations == {"login", "register", "logout", "addToCart", "removeFromCart"}

\* C10: the logout performed when the profile fetch is rejected emits no
\* notification, and every login, register, logout, addToCart and
\* removeFromCart call emits exactly one, when it ends.
C10_ForcedLogoutIsSilent ==
    /\ [][\A r \in Resumed : FetchUserErr(r) => out'.toasts = <<>>]_vars
    /\ [](out.op \in UserOperations => Len(out.toasts) = 1)
    /\ [](out.op = "none" => out.toasts = <<>>)

\* --------------------------------------------------------------- C11
\* A mutation call: its request or its resync fetch.
OfMutation(q) == q.kind \in {"add", "remove"} \/ IsResync(q)

\* The step installs in cartItems the response of a cart fetch it resumes.
InstallsFetch ==
    \E r \in Resumed :
        /\ r.kind = "cart"
        /\ \E v \in ReadPositions(r) : cartItems' = hist[r.tok][v]

\* The step commits a null token and clears the collection.
ClearsOnNullToken == token # NULL /\ token' = NULL /\ cartItems' = <<>>

\* C11 as claimed: the collection changes only by a cart fetch's response
\* or by the token becoming null, no step of addToCart / removeFromCart
\* changes it, and while a mutation call is under way (its request or its
\* resync in flight) nothing changes it but that call's resync completing.
C11_UnchangedUntilOwnResync ==
    [][/\ cartItems' # cartItems => InstallsFetch \/ ClearsOnNullToken
       /\ (\E q \in Sent \cup Resumed : q.kind \in {"add", "remove"})
              => cartItems' = cartItems
       /\ cartItems' # cartItems =>
              \A q \in inflight : OfMutation(q) =>
                  /\ IsResync(q)
                  /\ q.id \in {m.id : m \in Resumed}]_vars

\* C11 as amended: the collection changes only by a cart fetch's response
\* replacing it or by the token becoming null clearing it, and no step of
\* addToCart / removeFromCart (sending the request, resuming with its
\* outcome) changes the collection or the count.
C11_OnlyFetchOrClearChangesCart ==
    [][/\ cartItems' # cartItems => InstallsFetch \/ ClearsOnNullToken
       /\ (\E q \in Sent \cup Resumed : q.kind \in {"add", "remove"})
              => /\ cartItems' = cartItems
                 /\ cartCount' = cartCount]_vars

\* The server has applied an add for the current token and its call has
\* resumed; the line is not in the local collection, the resync being in
\* flight.
C11_Witness ==
    /\ out.op = "addToCart"
    /\ out.toasts = <<"success">>
    /\ \E q \in inflight :
           /\ IsResync(q)
           /\ q.tok = token
           /\ cartItems # serverCart[q.tok]

\* --------------------------------------------------------------- C12
\* C12: a rejected cart fetch leaves cartItems and cartCount as they were,
\* emits no notification, leaves token, persisted token and user as they
\* were and sends nothing; an addToCart / removeFromCart call whose request
\* got a response reports success in the step that sends its resync,
\* whatever becomes of the resync.
C12_FailedCartFetchIsSwallowed ==
    [][\A r \in Resumed :
           /\ (r.kind = "cart" /\ FetchCartErr(r)) =>
                                 /\ cartItems' = cartItems
                                 /\ cartCount' = cartCount
                                 /\ out'.toasts = <<>>
                                 /\ token' = token
                                 /\ stored' = stored
                                 /\ user' = user
                                 /\ Sent = {}
           /\ (r.kind \in {"add", "remove"} /\ r.stage = "ok")
                  => out'.toasts = <<"success">>]_vars

\* Every cart fetch of the session was rejected, the resync of an add the
\* server applied included (cartTok is set by every response and reset
\* only when the token becomes null): the collection held is not the cart
\* of the server, nothing was notified by the last step, the session stands.
C12_Witness ==
    /\ inflight = {}
    /\ token # NULL
    /\ user # NULL
    /\ cartTok = NULL
    /\ serverCart[token] # <<>>
    /\ cartItems = <<>>
    /\ out = Silent

\* --------------------------------------------------------------- C13
\* The cart requests a step sends.
CartFetchesSent == {q \in Sent : q.kind = "cart"}

\* C13: at start a hydrated token has exactly one cart fetch in flight,
\* carrying it, and no token has none and an empty cart; every step that
\* commits a non-null token the session did not hold sends exactly one cart
\* fetch, carrying that token; every step that commits a null token in
\* place of a token leaves the cart empty, the count 0, and sends no cart
\* request.
C13_TokenChangeReinitializesCart ==
    /\ IF token # NULL
       THEN /\ Cardinality({q \in inflight : q.kind = "cart"}) = 1
            /\ \A q \in inflight : q.kind = "cart" => q.tok = token
       ELSE /\ \A q \in inflight : q.kind # "cart"
            /\ cartItems = <<>>
    /\ [][token' # token =>
              IF token' # NULL
              THEN /\ Cardinality(CartFetchesSent) = 1
                   /\ \A q \in CartFetchesSent : q.tok = token' /\ q.origin = 0
              ELSE /\ cartItems' = <<>>
                   /\ cartCount' = 0
                   /\ \A q \in Sent : q.kind \notin {"cart", "add", "remove"}]_vars

\* A login has just succeeded and the cart fetch of its token is in flight.
C13_Witness ==
    /\ out.op = "login"
    /\ out.ret = "true"
    /\ \E q \in inflight : q.kind = "cart" /\ q.tok = token /\ q.origin = 0

\* --------------------------------------------------------------- C14
CartKinds == {"cart", "add", "remove"}

\* C14: every cart request (fetch, add, remove) in flight was sent while
\* the token committed in the session was non-null.
C14_NoCartRequestWithoutToken ==
    \A q \in inflight : q.kind \in CartKinds => q.committed # NULL

\* --------------------------------------------------------------- C15
\* The lines of the collection whose product is in the product map.
ResolvedLines ==
    {i \in 1..Len(cartItems) : cartItems[i].product_id \in DOMAIN products}

\* price(product_id) * quantity of a resolved line.
Worth == [i \in ResolvedLines |->
             products[cartItems[i].product_id].price * cartItems[i].quantity]

RECURSIVE SumOver(_, _)
SumOver(S, f) ==
    IF S = {} THEN 0
    ELSE LET i == CHOOSE j \in S : TRUE
         IN  f[i] + SumOver(S \ {i}, f)

\* C15: for every cart collection and product map CartModal comes to hold,
\* total is the sum of price * quantity over the lines whose product is in
\* the map; the other lines add nothing, and total is always defined.
C15_TotalIsSumOverResolved == total = SumOver(ResolvedLines, Worth)

\* Two lines, one resolved with quantity 2 and one not resolved: the total
\* is that of the resolved line alone.
C15_Witness ==
    /\ Len(cartItems) = 2
    /\ Cardinality(ResolvedLines) = 1
    /\ \E i \in ResolvedLines : cartItems[i].quantity = 2
    /\ total > 0

\* --------------------------------------------------------------- C16
\* C16 as claimed: the fetchProductDetails() call started by a change of
\* the collection issues as many product requests as the collection has
\* distinct product ids that were not in the product map at the change.
C16_OneRequestPerUncachedProduct ==
    done.issued = Cardinality(done.pids \ done.cached)

\* C16 as amended: a change to a non-empty collection starts exactly one
\* fetchProductDetails() call and a change to the empty collection none; a
\* call issues one product request per line of its collection, one after
\* the other, cached or not, duplicate or not.
C16_OneRequestPerLine ==
    /\ [](done.issued = done.lines)
    /\ [](\A run \in runs : run.issued = run.pos /\ run.pos \in 1..Len(run.items))
    /\ [][changes' # changes =>
              Cardinality({run \in runs' : run.id = changes'})
                  = (IF cartItems' = <<>> THEN 0 ELSE 1)]_vars

\* A call has returned that was started for two lines of one product, the
\* product being in the map already: it issued two requests.
C16_Witness ==
    /\ done.lines = 2
    /\ Cardinality(done.pids) = 1
    /\ done.cached = done.pids
    /\ done.issued = 2

\* --------------------------------------------------------------- C17
\* The three predicates of the claim, on the criteria Home holds.
Contains(str, term) ==
    \E i \in 1..(Len(str) + 1) :
        /\ i + Len(term) - 1 <= Len(str)
        /\ SubSeq(str, i, i + Len(term) - 1) = term

Satisfies(product) ==
    /\ selectedCategory = "all" \/ product.category = selectedCategory
    /\ selectedBrand = "all" \/ product.brand = selectedBrand
    /\ \/ searchTerm = <<>>
       \/ Contains(toLowerCase(product.name), toLowerCase(searchTerm))
       \/ Contains(toLowerCase(product.description), toLowerCase(searchTerm))

\* The elements of list from position i on that satisfy the predicates, in
\* the order of list.
RECURSIVE Satisfying(_, _)
Satisfying(list, i) ==
    IF i > Len(list) THEN <<>>
    ELSE (IF Satisfies(list[i]) THEN <<list[i]>> ELSE <<>>)
             \o Satisfying(list, i + 1)

\* C17: the filtered list is exactly the subsequence of the product list,
\* in its order, of the products that satisfy the three predicates; with
\* ("all", "all", "") it is the product list; filtering it again with the
\* same criteria returns it; and no filter step changes the product list.
C17_FilterIsStableSubsequence ==
    /\ [](filteredProducts = Satisfying(homeProducts, 1))
    /\ []((selectedCategory = "all" /\ selectedBrand = "all" /\ searchTerm = <<>>)
              => filteredProducts = homeProducts)
    /\ [](filterProducts(filteredProducts, selectedCategory, selectedBrand,
                         searchTerm) = filteredProducts)
    /\ [][~loading => homeProducts' = homeProducts]_vars

\* Of two products the first is dropped and the second is kept, matched by
\* its description in another case than the term's.
C17_Witness ==
    /\ searchTerm = <<"A", "B">>
    /\ Len(homeProducts) = 2
    /\ filteredProducts = <<homeProducts[2]>>
    /\ ~Contains(toLowerCase(homeProducts[2].name), toLowerCase(searchTerm))
    /\ ~Contains(homeProducts[2].description, searchTerm)

\* --------------------------------------------------------------- C18
\* C18: a step of register (sending its request, resuming with a response
\* or a rejection) leaves token, persisted token, user, the cart collection
\* and the cart count as they were and sends no profile or cart request.
C18_RegisterNeverAuthenticates ==
    [][(\E q \in Sent \cup Resumed : q.kind = "register") =>
           /\ token' = token
           /\ stored' = stored
           /\ user' = user
           /\ cartItems' = cartItems
           /\ cartCount' = cartCount
           /\ \A q \in Sent : q.kind = "register"]_vars

\* A registration has just succeeded and there is no session.
C18_Witness ==
    /\ out.op = "register"
    /\ out.ret = "true"
    /\ token = NULL
    /\ stored = NULL
    /\ user = NULL
    /\ inflight = {}

\* --------------------------------------------------------------- C19
\* C19: when the profile fetch of a token other than the one the session
\* holds leaves flight, the session's token and its persisted copy stay.
C19_StaleProfileFailureSparesSession ==
    [][\A r \in Resumed :
           (r.kind = "me" /\ token # NULL /\ r.tok # token) =>
               /\ token' = token
               /\ stored' = stored]_vars

\* --------------------------------------------------------------- C20
\* C20: a user profile held together with a token is the profile the
\* server resolves that token to.
C20_UserIsProfileOfToken ==
    (user # NULL /\ token # NULL) => user = ProfileOf(token)

\* --------------------------------------------------------------- C21
\* C21: a non-empty cart collection held together with a token is a
\* response to a cart fetch that carried that token: the cart of the token
\* held before is not kept under a new token, and a response to a fetch
\* that carried the previous token is not installed under the new one.
C21_CartBelongsToToken ==
    (token # NULL /\ cartItems # <<>>) => cartTok = token

\* --------------------------------------------------------------- C22
\* The fetchProductDetails() calls a step brings to their end.
Returned == {run \in runs : \A other \in runs' : other.id # run.id}

\* C22: when a fetchProductDetails() call started for an earlier cart
\* collection returns last, after the call started for the current one,
\* every product of the current collection that was in the product map is
\* still in it.
C22_LateEnrichmentKeepsCurrentProducts ==
    [][\A run \in Returned :
           (run.id < changes /\ runs' = {}) =>
               \A i \in 1..Len(cartItems) :
                   cartItems[i].product_id \in DOMAIN products
                       => cartItems[i].product_id \in DOMAIN products']_vars

====
